---- MODULE Spec2Model ----
(***************************************************************************)
(* Model of densitometer_plot.py: the numeric routines                     *)
(* (calculate_log_e, calculate_contrast_index, calculate_average_gradient) *)
(* and the straight-line run main -> plot_densitometry.                    *)
(*                                                                         *)
(* Numbers.  Densities and log-exposure values are held in tenths (the     *)
(* integer 2 is the float 0.2), so the offsets 0.1 and 0.6 are 1 and 6.    *)
(* Quotients are exact rationals [kind, n, d]; IEEE results that are not   *)
(* numbers (inf, -inf, nan) are kinds of the same record.  Indices are     *)
(* 1-based here and 0-based in the source.                                 *)
(***************************************************************************)
EXTENDS Integers, Sequences, FiniteSets, TLC

VARIABLES
    pc,               \* position of the run
    step_wedge_file,  \* what is on disk at args.step_wedge
    test_film_file,   \* what is on disk at args.film
    args,             \* parsed command line: ev, exposure_time, dmin, dmax
    step_wedge,       \* density column of the frame read from step_wedge_file
    test_film,        \* density column of the frame read from test_film_file
    x_values,
    y_values,
    window_size,
    contrast_index,
    best_points,
    min_density,
    target_density,
    interp,           \* locals x1, y1, x2, y2 of the interpolation branch
    log_e_at_target,
    avg_grad,
    grad_status,
    summary,          \* fields of the plt.figtext summary line
    axhlines,         \* reference lines drawn by plt.axhline
    out,              \* printed lines and pyplot calls, in order
    calls,            \* numeric library calls made by calculate_contrast_index
    error             \* the exception that ended the run, "" if none

vars == <<pc, step_wedge_file, test_film_file, args, step_wedge, test_film,
          x_values, y_values, window_size, contrast_index, best_points,
          min_density, target_density, interp, log_e_at_target, avg_grad,
          grad_status, summary, axhlines, out, calls, error>>

---------------------------------------------------------------------------
(* Bounds and input sets *)

MaxLen == 3

DefaultWindowSize == 11

WindowSizes == {2, 3}

StepDensities == {-60, 30, 40}

FilmDensities == {0, 2, 5, 7}

XValues == {-10, 0, 10, 100, 1000}

DminValues == {0, 1}

DmaxValues == {[given |-> FALSE, v |-> 0], [given |-> TRUE, v |-> 20]}

\* ev, and exposure_time in hundredths of a second
Exposures == {[ev |-> 2, exposure_time |-> 100]}

SeqsUpTo(S, n) == UNION {[1..k -> S] : k \in 0..n}

---------------------------------------------------------------------------
(* Floats *)

None == [kind |-> "None", n |-> 0, d |-> 1]

\* None, the value of best_points when no window was selected
NoPoints == <<>>

Abs(a) == IF a < 0 THEN -a ELSE a

RECURSIVE GCD(_, _)
GCD(a, b) == IF b = 0 THEN a ELSE GCD(b, a % b)

\* the float n / d of two numpy float64 scalars: never raises
Div(n, d) ==
    IF d = 0
    THEN [kind |-> IF n > 0 THEN "inf" ELSE IF n < 0 THEN "-inf" ELSE "nan",
          n |-> 0, d |-> 1]
    ELSE LET g == GCD(Abs(n), Abs(d))
             s == IF d < 0 THEN -1 ELSE 1
         IN [kind |-> "num", n |-> (s * n) \div g, d |-> (s * d) \div g]

\* f < p / q and f > p / q for a float f and q > 0
FloatLt(f, p, q) ==
    \/ f.kind = "-inf"
    \/ f.kind = "num" /\ f.n * q < p * f.d

FloatGt(f, p, q) ==
    \/ f.kind = "inf"
    \/ f.kind = "num" /\ f.n * q > p * f.d

\* Python truthiness of an optional float
Truthy(f) == f.kind # "None" /\ ~(f.kind = "num" /\ f.n = 0)

RECURSIVE Pow10Log(_)
Pow10Log(v) == IF v < 10 THEN 0 ELSE 1 + Pow10Log(v \div 10)

\* np_log10 taking the logarithm of the magnitude of a negative x
np_log10_abs(x) ==
    IF x = 0 THEN [kind |-> "-inf", v |-> 0]
    ELSE [kind |-> "num", v |-> Pow10Log(Abs(x)) - 1]

\* np.log10 of one element x (tenths); the result is in whole units.  Exact
\* on the powers of ten the inputs are drawn from; a warning, never an
\* exception, on x <= 0.
np_log10(x) ==
    IF x < 0 THEN [kind |-> "nan", v |-> 0]
    ELSE IF x = 0 THEN [kind |-> "-inf", v |-> 0]
    ELSE [kind |-> "num", v |-> Pow10Log(x) - 1]

RECURSIVE SumSeq(_)
SumSeq(s) == IF s = <<>> THEN 0 ELSE Head(s) + SumSeq(Tail(s))

MinOf(S) == CHOOSE m \in S : \A e \in S : m <= e
MaxOf(S) == CHOOSE m \in S : \A e \in S : m >= e

Range(s) == {s[i] : i \in DOMAIN s}

---------------------------------------------------------------------------
(* calculate_log_e *)

RECURSIVE Pow2(_)
Pow2(k) == IF k = 0 THEN 1 ELSE 2 * Pow2(k - 1)

\* log10(2.5 * 2^ev * 1000 * exposure_time), in tenths; exposure_time is in
\* hundredths of a second, so the argument of the log is 25 * 2^ev * t
calculate_log_e(ev, exposure_time) ==
    10 * Pow10Log(25 * Pow2(ev) * exposure_time)

---------------------------------------------------------------------------
(* calculate_contrast_index *)

\* NotEnoughPoints off by one
NotEnoughPointsOffByOne(x, y, w) == Len(x) < w - 1 \/ Len(y) < w - 1

\* line 14: the early return for too few points
NotEnoughPoints(x, y, w) == Len(x) < w \/ Len(y) < w

RECURSIVE InsertIdx(_, _, _)
InsertIdx(idx, i, x) ==
    IF idx = <<>> THEN <<i>>
    ELSE IF x[Head(idx)] <= x[i]
         THEN <<Head(idx)>> \o InsertIdx(Tail(idx), i, x)
         ELSE <<i>> \o idx

RECURSIVE ArgsortN(_, _)
ArgsortN(x, n) == IF n = 0 THEN <<>> ELSE InsertIdx(ArgsortN(x, n - 1), n, x)

\* np.argsort(x): the default sort is an insertion sort (stable) on arrays
\* this short
np_argsort(x) == ArgsortN(x, Len(x))

Take(s, idx) == [k \in 1..Len(idx) |-> s[idx[k]]]

ZeroR == [kind |-> "num", sgn |-> 0, n |-> 0, d |-> 1]

NaNR == [kind |-> "nan", sgn |-> 0, n |-> 0, d |-> 1]

\* scipy.stats.linregress(wx, wy), its r value only: r is held as its sign
\* and r^2 = n / d.  All x identical raises ValueError; a nan or -inf among
\* the x makes r nan; a constant y gives r = 0.
linregress(wx, wy) ==
    LET n == Len(wx)
        I == 1..n
        allnum == \A i \in I : wx[i].kind = "num"
        same == \A i \in I : wx[i] = wx[1]
        nonan == \A i \in I : wx[i].kind # "nan"
    IN IF n > 1 /\ nonan /\ same
       THEN [raised |-> "ValueError", r |-> ZeroR]
       ELSE IF ~allnum THEN [raised |-> "", r |-> NaNR]
       ELSE LET xs == [i \in I |-> wx[i].v]
                sx == SumSeq(xs)
                sy == SumSeq(wy)
                ssxm == n * SumSeq([i \in I |-> xs[i] * xs[i]]) - sx * sx
                ssym == n * SumSeq([i \in I |-> wy[i] * wy[i]]) - sy * sy
                ssxym == n * SumSeq([i \in I |-> xs[i] * wy[i]]) - sx * sy
            IN IF ssxm = 0 \/ ssym = 0 \/ ssxym = 0
               THEN [raised |-> "", r |-> ZeroR]
               ELSE [raised |-> "",
                     r |-> [kind |-> "num",
                            sgn |-> IF ssxym > 0 THEN 1 ELSE -1,
                            n |-> ssxym * ssxym, d |-> ssxm * ssym]]

\* line 39: abs(r_value) > abs(best_r_value); False when r_value is nan
AbsGreater(r, best) == r.kind = "num" /\ r.n * best.d > best.n * r.d

\* line 43: abs(best_r_value) > 0.98, as r^2 > 0.9604 = 2401 / 2500
AboveThreshold(r) == r.kind = "num" /\ r.n * 2500 > 2401 * r.d

\* lines 31-41: the loop from window i on; best carries best_r_value,
\* best_points, the number of linregress calls made, and the exception
RECURSIVE ScanWindows(_, _, _, _, _, _)
ScanWindows(x, y, log_x, w, i, best) ==
    IF i > Len(x) - w + 1 THEN best
    ELSE LET res == linregress(SubSeq(log_x, i, i + w - 1),
                               SubSeq(y, i, i + w - 1))
             made == [best EXCEPT !.fits = @ + 1]
         IN IF res.raised # ""
            THEN [made EXCEPT !.raised = res.raised]
            ELSE ScanWindows(x, y, log_x, w, i + 1,
                     IF AbsGreater(res.r, best.r)
                     THEN [made EXCEPT
                             !.r = res.r,
                             !.points = <<x[i], y[i], x[i + w - 1], y[i + w - 1]>>]
                     ELSE made)

RECURSIVE Repeat(_, _)
Repeat(e, k) == IF k = 0 THEN <<>> ELSE <<e>> \o Repeat(e, k - 1)

\* lines 12-52.  The result: the exception raised ("" if none), the returned
\* pair, what was printed and which numeric calls were made.
calculate_contrast_index(x_in, y_in, w) ==
    IF NotEnoughPoints(x_in, y_in, w)
    THEN [raised |-> "", contrast_index |-> None, best_points |-> NoPoints,
          out |-> <<"Warning: Not enough data points">>, calls |-> <<>>]
    ELSE LET sort_idx == np_argsort(x_in)
             x == Take(x_in, sort_idx)
             y == Take(y_in, sort_idx)
             log_x == [i \in 1..Len(x) |-> np_log10(x[i])]
             best == ScanWindows(x, y, log_x, w, 1,
                        [r |-> ZeroR, points |-> NoPoints, fits |-> 0,
                         raised |-> ""])
             made == <<"np.argsort", "np.log10">> \o Repeat("linregress", best.fits)
         IN IF best.raised # ""
            THEN [raised |-> best.raised, contrast_index |-> None,
                  best_points |-> NoPoints, out |-> <<>>, calls |-> made]
            ELSE IF best.points # NoPoints /\ AboveThreshold(best.r)
            THEN [raised |-> "",
                  contrast_index |-> Div(best.points[4] - best.points[2],
                                         best.points[3] - best.points[1]),
                  best_points |-> best.points,
                  out |-> <<"R2 value for contrast index calculation">>,
                  calls |-> made]
            ELSE [raised |-> "", contrast_index |-> None,
                  best_points |-> NoPoints,
                  out |-> <<"Could not find a suitable linear region">>,
                  calls |-> made]

---------------------------------------------------------------------------
(* calculate_average_gradient *)

\* abs_argmin returning the last index of the least difference
RECURSIVE ArgminLastFrom(_, _, _, _)
ArgminLastFrom(y, target, i, best) ==
    IF i > Len(y) THEN best
    ELSE ArgminLastFrom(y, target, i + 1,
             IF Abs(y[i] - target) <= Abs(y[best] - target) THEN i ELSE best)

abs_argmin_last(y, target) == ArgminLastFrom(y, target, 2, 1)

\* Series.argmin of np.abs(y - target): the first index of the least
\* absolute difference; y is not empty
RECURSIVE ArgminFrom(_, _, _, _)
ArgminFrom(y, target, i, best) ==
    IF i > Len(y) THEN best
    ELSE ArgminFrom(y, target, i + 1,
             IF Abs(y[i] - target) < Abs(y[best] - target) THEN i ELSE best)

abs_argmin(y, target) == ArgminFrom(y, target, 2, 1)

\* lines 54-72
calculate_average_gradient(x, y, dmin) ==
    LET lower_density == dmin + 1
        upper_density == dmin + 6
    IN IF y = <<>>
       THEN [raised |-> "ValueError", value |-> None, out |-> <<>>]
       ELSE LET idx1 == abs_argmin(y, lower_density)
                idx2 == abs_argmin(y, upper_density)
            IN IF idx1 = idx2
               THEN [raised |-> "", value |-> None,
                     out |-> <<"Warning: Could not find two distinct points for average gradient.">>]
               ELSE [raised |-> "",
                     value |-> Div(y[idx2] - y[idx1], x[idx2] - x[idx1]),
                     out |-> <<>>]

---------------------------------------------------------------------------
(* plot_densitometry: helpers *)

\* read_csv swallowing the failure and returning an empty frame
read_csv_swallow(file) == [raised |-> "", density |-> file.density]

\* the frame pd.read_csv returns, or the exception it raises
read_csv(file) ==
    CASE file.status = "missing" -> [raised |-> "FileNotFoundError", density |-> <<>>]
      [] file.status = "unparseable" -> [raised |-> "ParserError", density |-> <<>>]
      [] OTHER -> [raised |-> "", density |-> file.density]

\* Series.iloc[:n]
Truncate(s, n) == SubSeq(s, 1, n)

\* MinDensity testing "dmin is not None": a given 0.0 is used
MinDensityGiven(dmin, y) == dmin

\* lines 97-100: "if dmin:" is false for 0.0; y is not empty
MinDensity(dmin, y) == IF dmin # 0 THEN dmin ELSE MinOf(Range(y))

\* lines 103-104: np.where(...)[0], the positions in ascending order
Positions(y) == [i \in 1..Len(y) |-> i]

above(y, target) == SelectSeq(Positions(y), LAMBDA i : y[i] >= target)

\* below with y <= target
below_inclusive(y, target) == SelectSeq(Positions(y), LAMBDA i : y[i] <= target)

below(y, target) == SelectSeq(Positions(y), LAMBDA i : y[i] < target)

\* Interpolate without the offset x1
InterpolateNoOffset(x1, y1, x2, y2, target) ==
    Div((target - y1) * (x2 - x1), y2 - y1)

\* line 113: x1 + (target_density - y1) * (x2 - x1) / (y2 - y1)
Interpolate(x1, y1, x2, y2, target) ==
    Div(x1 * (y2 - y1) + (target - y1) * (x2 - x1), y2 - y1)

NoInterp == [taken |-> FALSE, x1 |-> 0, y1 |-> 0, x2 |-> 0, y2 |-> 0]

\* lines 103-119: the exception raised, the locals of the interpolation
\* branch when it is taken, and log_e_at_target
SpeedPointAt(x, y, target) ==
    LET a == above(y, target)
        b == below(y, target)
    IN IF Len(a) > 0 /\ Len(b) > 0
       THEN LET idx_above == a[1]
                idx_below == b[Len(b)]
                x1 == x[idx_below]
                y1 == y[idx_below]
                x2 == x[idx_above]
                y2 == y[idx_above]
            IN [raised |-> "",
                interp |-> [taken |-> TRUE, x1 |-> x1, y1 |-> y1,
                            x2 |-> x2, y2 |-> y2],
                value |-> IF x2 # x1
                          THEN Interpolate(x1, y1, x2, y2, target)
                          ELSE Div(x1, 1)]
       ELSE IF y = <<>>
       THEN [raised |-> "ValueError", interp |-> NoInterp, value |-> None]
       ELSE [raised |-> "", interp |-> NoInterp,
             value |-> Div(x[abs_argmin(y, target)], 1)]

\* lines 145-153, for an avg_grad that is a float
GradStatus(g) ==
    IF FloatLt(g, 62, 100) THEN "Too Low"
    ELSE IF FloatGt(g, 70, 100) THEN "Too High"
    ELSE "OK"

\* lines 193-196
MaxDensity(dmax, y) == IF dmax.given /\ dmax.v # 0 THEN dmax.v ELSE MaxOf(Range(y))

Raise(e) == /\ error' = e
            /\ pc' = "raised"

---------------------------------------------------------------------------
(* The run: main -> plot_densitometry *)

Files(S) ==
    {[status |-> "missing", density |-> <<>>],
     [status |-> "unparseable", density |-> <<>>]}
    \cup {[status |-> "ok", density |-> d] : d \in SeqsUpTo(S, MaxLen)}

Unassigned ==
    /\ step_wedge = <<>>
    /\ test_film = <<>>
    /\ contrast_index = None
    /\ best_points = NoPoints
    /\ min_density = 0
    /\ target_density = 0
    /\ interp = NoInterp
    /\ log_e_at_target = None
    /\ avg_grad = None
    /\ grad_status = ""
    /\ summary = <<>>
    /\ axhlines = <<>>
    /\ out = <<>>
    /\ calls = <<>>
    /\ error = ""

\* The files hold at most MaxLen rows, fewer than the default window of
\* calculate_contrast_index, so in these runs the search returns absence;
\* SpecCI below runs the search itself with windows the curves can fill.
Init ==
    /\ pc = "read_step_wedge"
    /\ step_wedge_file \in Files(StepDensities)
    /\ test_film_file \in Files(FilmDensities)
    /\ args \in {[ev |-> e.ev, exposure_time |-> e.exposure_time,
                  dmin |-> dm, dmax |-> dx] :
                     e \in Exposures, dm \in DminValues, dx \in DmaxValues}
    /\ x_values = <<>>
    /\ y_values = <<>>
    /\ window_size = DefaultWindowSize
    /\ Unassigned

\* line 76
ReadStepWedge ==
    /\ pc = "read_step_wedge"
    /\ LET res == read_csv(step_wedge_file)
       IN IF res.raised # ""
          THEN Raise(res.raised) /\ UNCHANGED step_wedge
          ELSE /\ step_wedge' = res.density
               /\ pc' = "read_test_film"
               /\ UNCHANGED error
    /\ UNCHANGED <<step_wedge_file, test_film_file, args, test_film, x_values,
                   y_values, window_size, contrast_index, best_points,
                   min_density, target_density, interp, log_e_at_target,
                   avg_grad, grad_status, summary, axhlines, out, calls>>

\* line 77
ReadTestFilm ==
    /\ pc = "read_test_film"
    /\ LET res == read_csv(test_film_file)
       IN IF res.raised # ""
          THEN Raise(res.raised) /\ UNCHANGED test_film
          ELSE /\ test_film' = res.density
               /\ pc' = "build_curve"
               /\ UNCHANGED error
    /\ UNCHANGED <<step_wedge_file, test_film_file, args, step_wedge, x_values,
                   y_values, window_size, contrast_index, best_points,
                   min_density, target_density, interp, log_e_at_target,
                   avg_grad, grad_status, summary, axhlines, out, calls>>

\* lines 80-87
BuildCurve ==
    /\ pc = "build_curve"
    /\ LET log_e == calculate_log_e(args.ev, args.exposure_time)
           min_measurements == IF Len(step_wedge) < Len(test_film)
                               THEN Len(step_wedge) ELSE Len(test_film)
       IN /\ x_values' = [i \in 1..min_measurements |-> log_e - step_wedge[i]]
          /\ y_values' = Truncate(test_film, min_measurements)
    /\ pc' = "contrast_index"
    /\ UNCHANGED <<step_wedge_file, test_film_file, args, step_wedge, test_film,
                   window_size, contrast_index, best_points, min_density,
                   target_density, interp, log_e_at_target, avg_grad,
                   grad_status, summary, axhlines, out, calls, error>>

\* lines 90-95
ContrastIndex ==
    /\ pc = "contrast_index"
    /\ LET res == calculate_contrast_index(x_values, y_values, window_size)
       IN /\ calls' = calls \o res.calls
          /\ IF res.raised # ""
             THEN /\ Raise(res.raised)
                  /\ UNCHANGED <<contrast_index, best_points, out>>
             ELSE /\ contrast_index' = res.contrast_index
                  /\ best_points' = res.best_points
                  /\ out' = out \o res.out \o
                            <<"Step wedge measurements", "Test film measurements",
                              "Using first measurements">>
                  /\ pc' = "speed_point"
                  /\ UNCHANGED error
    /\ UNCHANGED <<step_wedge_file, test_film_file, args, step_wedge, test_film,
                   x_values, y_values, window_size, min_density, target_density,
                   interp, log_e_at_target, avg_grad, grad_status, summary,
                   axhlines>>

\* lines 97-122.  iso_speed = int(800 / 10 ** log_e_at_target) is a local
\* read only by the summary text; its value is not held.
SpeedPoint ==
    /\ pc = "speed_point"
    /\ IF args.dmin = 0 /\ y_values = <<>>
       THEN /\ Raise("ValueError")
            /\ UNCHANGED <<min_density, target_density, interp, log_e_at_target>>
       ELSE LET md == MinDensity(args.dmin, y_values)
                res == SpeedPointAt(x_values, y_values, md + 1)
            IN /\ min_density' = md
               /\ target_density' = md + 1
               /\ IF res.raised # ""
                  THEN /\ Raise(res.raised)
                       /\ UNCHANGED <<interp, log_e_at_target>>
                  ELSE /\ interp' = res.interp
                       /\ log_e_at_target' = res.value
                       /\ pc' = "average_gradient"
                       /\ UNCHANGED error
    /\ UNCHANGED <<step_wedge_file, test_film_file, args, step_wedge, test_film,
                   x_values, y_values, window_size, contrast_index, best_points,
                   avg_grad, grad_status, summary, axhlines, out, calls>>

\* lines 125-131
AverageGradient ==
    /\ pc = "average_gradient"
    /\ LET res == calculate_average_gradient(x_values, y_values, min_density)
       IN IF res.raised # ""
          THEN Raise(res.raised) /\ UNCHANGED <<avg_grad, out>>
          ELSE /\ avg_grad' = res.value
               /\ out' = out \o res.out \o
                         <<IF Truthy(res.value)
                           THEN "Average Gradient"
                           ELSE "Could not calculate average gradient.">>
               /\ pc' = "create_plot"
               /\ UNCHANGED error
    /\ UNCHANGED <<step_wedge_file, test_film_file, args, step_wedge, test_film,
                   x_values, y_values, window_size, contrast_index, best_points,
                   min_density, target_density, interp, log_e_at_target,
                   grad_status, summary, axhlines, calls>>

\* lines 134-144
CreatePlot ==
    /\ pc = "create_plot"
    /\ out' = out \o <<"plt.subplots", "ax.scatter", "ax.annotate", "ax.plot">>
    /\ pc' = "classify"
    /\ UNCHANGED <<step_wedge_file, test_film_file, args, step_wedge, test_film,
                   x_values, y_values, window_size, contrast_index, best_points,
                   min_density, target_density, interp, log_e_at_target,
                   avg_grad, grad_status, summary, axhlines, calls, error>>

\* lines 145-153: None < 0.62 raises TypeError
Classify ==
    /\ pc = "classify"
    /\ IF avg_grad = None
       THEN Raise("TypeError") /\ UNCHANGED grad_status
       ELSE /\ grad_status' = GradStatus(avg_grad)
            /\ pc' = "summary"
            /\ UNCHANGED error
    /\ UNCHANGED <<step_wedge_file, test_film_file, args, step_wedge, test_film,
                   x_values, y_values, window_size, contrast_index, best_points,
                   min_density, target_density, interp, log_e_at_target,
                   avg_grad, summary, axhlines, out, calls>>

\* lines 156-169
Summary ==
    /\ pc = "summary"
    /\ IF Truthy(contrast_index) /\ best_points # NoPoints
       THEN /\ summary' = <<"Contrast Index", "ISO Speed", "Avg. Gradient",
                            grad_status>>
            /\ out' = out \o <<"plt.figtext", "ax.plot">>
       ELSE /\ summary' = <<"ISO Speed">>
            /\ out' = out \o <<"plt.figtext">>
    /\ pc' = "render"
    /\ UNCHANGED <<step_wedge_file, test_film_file, args, step_wedge, test_film,
                   x_values, y_values, window_size, contrast_index, best_points,
                   min_density, target_density, interp, log_e_at_target,
                   avg_grad, grad_status, axhlines, calls, error>>

\* lines 174-202; y_values is not empty here
Render ==
    /\ pc = "render"
    /\ axhlines' = <<[label |-> "Toe", y |-> min_density],
                     [label |-> "Shoulder", y |-> MaxDensity(args.dmax, y_values)]>>
    /\ out' = out \o <<"plt.semilogx", "plt.legend", "plt.axhline",
                       "plt.axhline", "plt.show">>
    /\ pc' = "main_print"
    /\ UNCHANGED <<step_wedge_file, test_film_file, args, step_wedge, test_film,
                   x_values, y_values, window_size, contrast_index, best_points,
                   min_density, target_density, interp, log_e_at_target,
                   avg_grad, grad_status, summary, calls, error>>

\* line 218
MainPrint ==
    /\ pc = "main_print"
    /\ out' = out \o <<"Plot generated">>
    /\ pc' = "done"
    /\ UNCHANGED <<step_wedge_file, test_film_file, args, step_wedge, test_film,
                   x_values, y_values, window_size, contrast_index, best_points,
                   min_density, target_density, interp, log_e_at_target,
                   avg_grad, grad_status, summary, axhlines, calls, error>>

Next ==
    \/ ReadStepWedge
    \/ ReadTestFilm
    \/ BuildCurve
    \/ ContrastIndex
    \/ SpeedPoint
    \/ AverageGradient
    \/ CreatePlot
    \/ Classify
    \/ Summary
    \/ Render
    \/ MainPrint

Spec == Init /\ [][Next]_vars

---------------------------------------------------------------------------
(* calculate_contrast_index called on its own, with any window size *)

Samples == XValues \X FilmDensities

InitCI ==
    /\ pc = "ci_call"
    /\ \E s \in SeqsUpTo(Samples, MaxLen) :
          /\ x_values = [i \in 1..Len(s) |-> s[i][1]]
          /\ y_values = [i \in 1..Len(s) |-> s[i][2]]
    /\ window_size \in WindowSizes
    /\ step_wedge_file = [status |-> "missing", density |-> <<>>]
    /\ test_film_file = [status |-> "missing", density |-> <<>>]
    /\ args = [ev |-> 0, exposure_time |-> 0, dmin |-> 0,
               dmax |-> [given |-> FALSE, v |-> 0]]
    /\ Unassigned

CallContrastIndex ==
    /\ pc = "ci_call"
    /\ LET res == calculate_contrast_index(x_values, y_values, window_size)
       IN /\ calls' = res.calls
          /\ out' = res.out
          /\ contrast_index' = res.contrast_index
          /\ best_points' = res.best_points
          /\ error' = res.raised
          /\ pc' = IF res.raised # "" THEN "ci_raised" ELSE "ci_returned"
    /\ UNCHANGED <<step_wedge_file, test_film_file, args, step_wedge, test_film,
                   x_values, y_values, window_size, min_density, target_density,
                   interp, log_e_at_target, avg_grad, grad_status, summary,
                   axhlines>>

NextCI == CallContrastIndex

SpecCI == InitCI /\ [][NextCI]_vars

---------------------------------------------------------------------------
(* Properties *)

\* positions of the run after SpeedPoint completed, after AverageGradient
\* completed, and after a call of calculate_contrast_index ended
SpeedPointDone == log_e_at_target # None

GradientDone == \E k \in DOMAIN out :
                   out[k] \in {"Average Gradient",
                               "Could not calculate average gradient."}

CallEnded == pc \in {"ci_returned", "ci_raised"}

Printed(line) == \E k \in DOMAIN out : out[k] = line

ReadFailed == \/ step_wedge_file.status # "ok"
              \/ test_film_file.status # "ok"

\* the x-sorted curve and the fit of its window starting at i
SortedX == Take(x_values, np_argsort(x_values))

SortedY == Take(y_values, np_argsort(x_values))

Windows == 1..(Len(x_values) - window_size + 1)

WindowR(i) ==
    linregress([k \in 1..window_size |-> np_log10(SortedX[i + k - 1])],
               [k \in 1..window_size |-> SortedY[i + k - 1]]).r

WindowPoints(i) == <<SortedX[i], SortedY[i],
                     SortedX[i + window_size - 1], SortedY[i + window_size - 1]>>

\* |r| of window i is at least 0.98-exceeding and maximal over all windows
RSqGreater(a, b) == a.n * b.d > b.n * a.d

BestWindows == {i \in Windows :
                   /\ WindowR(i).n * 2500 > 2401 * WindowR(i).d
                   /\ \A j \in Windows : ~RSqGreater(WindowR(j), WindowR(i))}

\* first index of the sample nearest to density t
Nearest(t) == CHOOSE i \in DOMAIN y_values :
                 /\ \A j \in DOMAIN y_values :
                       Abs(y_values[j] - t) >= Abs(y_values[i] - t)
                 /\ \A j \in 1..(i - 1) :
                       Abs(y_values[j] - t) > Abs(y_values[i] - t)

\* C1: an indeterminate gradient (calculate_average_gradient returned None
\* after its warning) is not fatal: the run does not raise, and once it is
\* done plt.show() was called and the summary holds no average gradient.
C1_IndeterminateGradientNonFatal ==
    Printed("Warning: Could not find two distinct points for average gradient.")
        => /\ pc # "raised"
           /\ pc = "done" =>
                 /\ Printed("plt.show")
                 /\ \A k \in DOMAIN summary : summary[k] # "Avg. Gradient"

\* C2: with at least window_size samples, all of positive logExposure, the
\* call returns, and it returns a region exactly when the maximal |r| over
\* all windows exceeds 0.98; the region is that of the earliest window
\* attaining the maximum, and otherwise the result is (None, None).
C2_RegionIffBestWindowAboveThreshold ==
    (CallEnded /\ Len(x_values) >= window_size
        /\ \A i \in DOMAIN x_values : x_values[i] > 0)
        => /\ pc = "ci_returned"
           /\ IF BestWindows = {}
              THEN best_points = NoPoints /\ contrast_index = None
              ELSE best_points = WindowPoints(MinOf(BestWindows))

\* C3: fewer than window_size samples (none included): the call returns
\* (None, None) after the warning, raises nothing, and makes no sort, log10
\* or regression call.
C3_ShortInputIsAbsence ==
    (pc # "ci_call" /\ Len(x_values) < window_size)
        => /\ pc = "ci_returned"
           /\ error = ""
           /\ contrast_index = None
           /\ best_points = NoPoints
           /\ out = <<"Warning: Not enough data points">>
           /\ calls = <<>>

C3_ShortInputReached ==
    /\ pc = "ci_returned"
    /\ Len(x_values) = window_size - 1
    /\ calls = <<>>

\* C4 as stated: with at least window_size samples, one of them with
\* logExposure <= 0, the search fails at the log10 step (no regression is
\* run and the call raises).
C4_FailsAtLog10 ==
    (CallEnded /\ Len(x_values) >= window_size
        /\ \E i \in DOMAIN x_values : x_values[i] <= 0)
        => /\ pc = "ci_raised"
           /\ \A k \in DOMAIN calls : calls[k] # "linregress"

\* C4 amended: log10 of a non-positive logExposure does not fail (the log10
\* step completes and the regressions run); a returned region is that of a
\* window of the sorted curve whose logExposure values are all positive.
C4_RegionOnlyFromPositiveWindow ==
    (CallEnded /\ Len(x_values) >= window_size)
        => /\ \E k \in DOMAIN calls : calls[k] = "linregress"
           /\ error \in {"", "ValueError"}
           /\ best_points # NoPoints =>
                 /\ pc = "ci_returned"
                 /\ contrast_index # None
                 /\ \E i \in Windows :
                       /\ best_points = WindowPoints(i)
                       /\ \A k \in i..(i + window_size - 1) : SortedX[k] > 0

C4_RegionBesideNonPositiveReached ==
    /\ pc = "ci_returned"
    /\ best_points # NoPoints
    /\ window_size = 2
    /\ \E i \in DOMAIN x_values : x_values[i] <= 0

\* C5: with samples on both sides of the target density the speed point is
\* interpolated between a sample of the greatest density below the target
\* and a sample of the least density at or above it (the lower sample's
\* logExposure when the two logExposure values coincide); with one side
\* empty it is the logExposure of the nearest sample.
C5_InterpolatesBetweenBracketingSamples ==
    SpeedPointDone =>
        LET t == target_density
            A == {i \in DOMAIN y_values : y_values[i] >= t}
            B == {i \in DOMAIN y_values : y_values[i] < t}
        IN IF A # {} /\ B # {}
           THEN \E lo \in B, hi \in A :
                   /\ \A j \in B : y_values[j] <= y_values[lo]
                   /\ \A j \in A : y_values[j] >= y_values[hi]
                   /\ log_e_at_target.kind = "num"
                   /\ IF x_values[hi] # x_values[lo]
                      THEN log_e_at_target.n * (y_values[hi] - y_values[lo])
                           = log_e_at_target.d *
                               (x_values[lo] * (y_values[hi] - y_values[lo])
                                + (t - y_values[lo]) * (x_values[hi] - x_values[lo]))
                      ELSE log_e_at_target = Div(x_values[lo], 1)
           ELSE log_e_at_target = Div(x_values[Nearest(t)], 1)

\* the samples (logExposure 1, density 0.0) and (logExposure 10, density 0.2)
\* with minDensity 0
C6_Input ==
    /\ x_values = <<10, 100>>
    /\ y_values = <<0, 2>>
    /\ args.dmin = 0

\* C6 as stated: on that input the speed point is 10^0.5, about 3.162
\* (31.62 tenths).
C6_SpeedPointIsLogMidpoint ==
    (C6_Input /\ SpeedPointDone)
        => /\ log_e_at_target.kind = "num"
           /\ 3162 * log_e_at_target.d <= 100 * log_e_at_target.n
           /\ 100 * log_e_at_target.n <= 3163 * log_e_at_target.d

\* C6 amended: on that input the speed point is 5.5 (55 tenths), the
\* midpoint of the two logExposure values 1 and 10.
C6_SpeedPointIsLinearMidpoint ==
    (C6_Input /\ SpeedPointDone)
        => /\ target_density = 1
           /\ interp = [taken |-> TRUE, x1 |-> 10, y1 |-> 0, x2 |-> 100, y2 |-> 2]
           /\ log_e_at_target = [kind |-> "num", n |-> 55, d |-> 1]

C6_InputReached == C6_Input /\ SpeedPointDone /\ interp.taken

\* C7: i1 is the first index nearest to dmin + 0.1 and i2 the first index
\* nearest to dmin + 0.6 in the input order; the result is None exactly when
\* i1 = i2 and otherwise (density[i2] - density[i1]) / (logExposure[i2] -
\* logExposure[i1]).
C7_AverageGradient ==
    GradientDone =>
        LET i1 == Nearest(min_density + 1)
            i2 == Nearest(min_density + 6)
            dy == y_values[i2] - y_values[i1]
            dx == x_values[i2] - x_values[i1]
        IN /\ (avg_grad = None) <=> (i1 = i2)
           /\ i1 # i2 =>
                 IF dx # 0
                 THEN /\ avg_grad.kind = "num"
                      /\ avg_grad.n * dx = avg_grad.d * dy
                 ELSE avg_grad.kind = (IF dy > 0 THEN "inf" ELSE "-inf")

\* a gradient was computed where the lower target has two nearest samples
\* and the samples are not in ascending logExposure order
C7_GradientWithTieReached ==
    /\ GradientDone
    /\ avg_grad.kind = "num"
    /\ \E i, j \in DOMAIN y_values :
          /\ i < j
          /\ y_values[i] # y_values[j]
          /\ Abs(y_values[i] - (min_density + 1)) = Abs(y_values[j] - (min_density + 1))
          /\ Nearest(min_density + 1) = i
    /\ \E i \in DOMAIN x_values : i > 1 /\ x_values[i] < x_values[i - 1]

\* C8: a run whose read of either file fails raises the read's error and
\* produces nothing: no regression, speed point, gradient, print, figure or
\* plt.show().
C8_ReadFailureAborts ==
    ReadFailed
        => /\ pc \in {"read_step_wedge", "read_test_film", "raised"}
           /\ step_wedge_file.status # "ok" => pc # "read_test_film"
           /\ pc = "raised" => error \in {"FileNotFoundError", "ParserError"}
           /\ out = <<>>
           /\ calls = <<>>
           /\ summary = <<>>
           /\ axhlines = <<>>
           /\ contrast_index = None
           /\ log_e_at_target = None
           /\ avg_grad = None

C8_FilmReadFailedReached ==
    /\ pc = "raised"
    /\ step_wedge_file.status = "ok"
    /\ Len(step_wedge_file.density) > 0
    /\ test_film_file.status = "unparseable"

\* C9: dmin = 0.0 counts as absent: the minimum density behind the target
\* density, the average gradient and the toe line is the least film density
\* of the truncated data; any other dmin is used as given.
C9_ZeroDminIsAbsent ==
    SpeedPointDone =>
        LET expected == IF args.dmin = 0
                        THEN CHOOSE m \in Range(y_values) :
                                \A e \in Range(y_values) : m <= e
                        ELSE args.dmin
        IN /\ min_density = expected
           /\ target_density = expected + 1
           /\ GradientDone =>
                 ((avg_grad = None) <=> (Nearest(expected + 1) = Nearest(expected + 6)))
           /\ axhlines # <<>> => axhlines[1] = [label |-> "Toe", y |-> expected]

C9_ZeroDminToeReached ==
    /\ args.dmin = 0
    /\ pc = "done"
    /\ min_density > 0
    /\ axhlines[1].y = min_density

\* C10: in the interpolation branch the divisor y2 - y1 is positive and the
\* result lies between x1 and x2.
C10_InterpolationWellDefined ==
    (SpeedPointDone /\ interp.taken /\ interp.x1 # interp.x2)
        => /\ interp.y2 - interp.y1 > 0
           /\ log_e_at_target.kind = "num"
           /\ \/ /\ interp.x1 * log_e_at_target.d <= log_e_at_target.n
                 /\ log_e_at_target.n <= interp.x2 * log_e_at_target.d
              \/ /\ interp.x2 * log_e_at_target.d <= log_e_at_target.n
                 /\ log_e_at_target.n <= interp.x1 * log_e_at_target.d

\* interpolation strictly inside a bracket, and one ending on a sample whose
\* density is the target
C10_InterpolatedReached ==
    /\ SpeedPointDone
    /\ interp.taken
    /\ interp.x1 > interp.x2
    /\ interp.y2 > target_density
    /\ log_e_at_target.d > 1

====
